---- MODULE Spec2Model ----
(***************************************************************************)
(* Precompile container factories of polaris (package precompile):        *)
(* StatelessFactory.Build, StatefulFactory.Build, buildIdsToMethods,       *)
(* formatName and validateReturnTypes.                                     *)
(*                                                                         *)
(* Strings are sequences of Unicode code points (Go identifiers are valid  *)
(* UTF-8, so []rune(name) and string(ret) are the two readings of the same *)
(* sequence).  Byte strings (selectors) are sequences of bytes.            *)
(***************************************************************************)
EXTENDS Integers, Sequences, FiniteSets, TLC

(***************************************************************************)
(* Bounds of the model.                                                    *)
(***************************************************************************)
\* largest number of exported methods of a modelled implementation
MaxMethods == 2
\* number of Build calls the registration caller makes with the same inputs
MaxAttempts == 2
\* longest name handed to formatName in SpecFormatName
MaxNameLen == 3

(***************************************************************************)
(* Errors.  An error value is a record: the message of the base error, the *)
(* value formatted into it (%s) and the context errorslib.Wrap attached.   *)
(***************************************************************************)
NoName == <<>>

NilError == [msg |-> "nil", found |-> "", wrapped |-> FALSE, ctx |-> NoName]

ErrWrongContainerFactory ==
    [msg |-> "ErrWrongContainerFactory", found |-> "", wrapped |-> FALSE, ctx |-> NoName]

ErrNoPrecompileMethodForABIMethod ==
    [msg |-> "ErrNoPrecompileMethodForABIMethod", found |-> "", wrapped |-> FALSE, ctx |-> NoName]

\* errors.New(...) of validateReturnTypes, wrong number of return values
ErrWrongNumberOfReturnTypes ==
    [msg |-> "precompile methods must return ([]any, error), but found wrong number of return types for precompile method",
     found |-> "", wrapped |-> FALSE, ctx |-> NoName]

\* fmt.Errorf("first parameter should be []any, but found %s ...", t.String())
ErrFirstReturnType(str) ==
    [msg |-> "first parameter should be []any, but found %s for precompile method",
     found |-> str, wrapped |-> FALSE, ctx |-> NoName]

\* fmt.Errorf("second parameter should be error, but found %s ...", t.String())
ErrSecondReturnType(str) ==
    [msg |-> "second parameter should be error, but found %s for precompile method",
     found |-> str, wrapped |-> FALSE, ctx |-> NoName]

\* errorslib.Wrap(err, msg): err with msg attached as context
Wrap(err, msg) == [err EXCEPT !.wrapped = TRUE, !.ctx = msg]

\* `StatelessContainerImpl`
statelessContainerName ==
    <<83, 116, 97, 116, 101, 108, 101, 115, 115,
      67, 111, 110, 116, 97, 105, 110, 101, 114, 73, 109, 112, 108>>

\* `StatefulContainerImpl`
statefulContainerName ==
    <<83, 116, 97, 116, 101, 102, 117, 108,
      67, 111, 110, 116, 97, 105, 110, 101, 114, 73, 109, 112, 108>>

(***************************************************************************)
(* formatName.                                                             *)
(***************************************************************************)
\* KELVIN SIGN (U+212A), an upper-case letter whose lower case is ASCII 'k'
KelvinSign == 8490

\* unicode.ToLower on the code points the model uses: ASCII and U+212A
ToLower(r) ==
    IF r \in 65..90 THEN r + 32 ELSE IF r = KelvinSign THEN 107 ELSE r

\* a plausible slip: lower-cases every character of the name
formatNameWholeName(name) == [i \in 1..Len(name) |-> ToLower(name[i])]

formatName(name) ==
    IF Len(name) = 0
    THEN name
    ELSE LET ret == name    \* []rune(name)
         IN  [ret EXCEPT ![1] = ToLower(ret[1])]

(***************************************************************************)
(* reflect.Type values of the return types the model uses.                 *)
(***************************************************************************)
RType(kind, elem, name, str) == [Kind |-> kind, Elem |-> elem, Name |-> name, String |-> str]

SliceAny  == RType("slice", "interface", "", "[]interface {}")
SliceInt  == RType("slice", "int", "", "[]int")
MapAny    == RType("map", "interface", "", "map[string]interface {}")
PtrInt    == RType("ptr", "int", "", "*int")
IntT      == RType("int", "", "int", "int")
StringT   == RType("string", "", "string", "string")
ErrorT    == RType("interface", "", "error", "error")

\* reflect.Type.Elem panics unless the kind is Array, Chan, Map, Pointer or Slice
HasElem(t) == t.Kind \in {"array", "chan", "map", "ptr", "slice"}

\* the return signatures (Type.Out(0..NumOut()-1)) of modelled methods
ReturnSigs ==
    { <<SliceAny, ErrorT>>,      \* ([]any, error)
      <<SliceAny>>,              \* one value
      <<SliceInt, ErrorT>>,      \* slice of non-variant elements
      <<MapAny, ErrorT>>,        \* not a slice, variant elements
      <<PtrInt, ErrorT>>,        \* not a slice, non-variant elements
      <<IntT, ErrorT>>,          \* not a slice, no element type
      <<SliceAny, StringT>> }    \* second value is not error

(***************************************************************************)
(* validateReturnTypes: [panic |-> BOOLEAN, err |-> error]                 *)
(***************************************************************************)
Validated(e) == [panic |-> FALSE, err |-> e]
Panicked == [panic |-> TRUE, err |-> NilError]

\* firstReturnType.Kind() != reflect.Slice && firstReturnType.Elem().Kind() != reflect.Interface
firstReturnTypeRejected(t) ==
    IF t.Kind # "slice"
    THEN IF ~HasElem(t) THEN "panic"
         ELSE IF t.Elem # "interface" THEN "reject" ELSE "accept"
    ELSE "accept"

validateReturnTypes(implMethod) ==
    LET out == implMethod.Out IN
    IF Len(out) # 2
    THEN Validated(ErrWrongNumberOfReturnTypes)
    ELSE LET first == firstReturnTypeRejected(out[1]) IN
         IF first = "panic" THEN Panicked
         ELSE IF first = "reject" THEN Validated(ErrFirstReturnType(out[1].String))
         ELSE IF out[2].Name # "error"
              THEN Validated(ErrSecondReturnType(out[2].String))
              ELSE Validated(NilError)

(***************************************************************************)
(* ABI method descriptors (abi.Method): Name, Sig and the precomputed      *)
(* 4-byte selector ID.  The map ABIMethods() is keyed by Name.  The        *)
(* methods of one ABI have distinct selectors: the ABIs come from compiled *)
(* Solidity interfaces, and the compiler rejects colliding selectors.      *)
(***************************************************************************)
\* "delegate", "getValidator", "kick"
Name_delegate     == <<100, 101, 108, 101, 103, 97, 116, 101>>
Name_getValidator == <<103, 101, 116, 86, 97, 108, 105, 100, 97, 116, 111, 114>>
Name_kick         == <<107, 105, 99, 107>>

AbiUniverse ==
    { [Name |-> Name_delegate,     Sig |-> "delegate(address,uint256)", ID |-> <<2, 109, 64, 43>>],
      [Name |-> Name_getValidator, Sig |-> "getValidator(address)",     ID |-> <<27, 46, 185, 80>>],
      [Name |-> Name_kick,         Sig |-> "kick()",                    ID |-> <<65, 196, 26, 196>>] }

\* the maps ABIMethods() can return: name -> descriptor
AbiMaps ==
    { [n \in {d.Name : d \in A} |-> CHOOSE d \in A : d.Name = n] : A \in SUBSET AbiUniverse }

(***************************************************************************)
(* Implementations: the exported method set of the concrete type, in the   *)
(* order reflect lists it (sorted by name), each with its return types.    *)
(***************************************************************************)
\* "Delegate", "GetValidator", "Kick", and "Kick" spelled with U+212A
Name_Delegate     == <<68, 101, 108, 101, 103, 97, 116, 101>>
Name_GetValidator == <<71, 101, 116, 86, 97, 108, 105, 100, 97, 116, 111, 114>>
Name_Kick         == <<75, 105, 99, 107>>
Name_KelvinKick   == <<KelvinSign, 105, 99, 107>>

ImplNames == {Name_Delegate, Name_GetValidator, Name_Kick, Name_KelvinKick}

RECURSIVE NameLess(_, _)
NameLess(a, b) ==
    IF Len(b) = 0 THEN FALSE
    ELSE IF Len(a) = 0 THEN TRUE
    ELSE IF a[1] # b[1] THEN a[1] < b[1]
    ELSE NameLess(Tail(a), Tail(b))

RECURSIVE SortNames(_)
SortNames(S) ==
    IF S = {} THEN <<>>
    ELSE LET least == CHOOSE x \in S : \A y \in S \ {x} : NameLess(x, y)
         IN  <<least>> \o SortNames(S \ {least})

MethodSets ==
    UNION { LET names == SortNames(S)
                n == Len(names)
            IN  { [i \in 1..n |-> [Name |-> names[i], Out |-> f[i]]] : f \in [1..n -> ReturnSigs] }
          : S \in {T \in SUBSET ImplNames : Cardinality(T) <= MaxMethods} }

NoMethods == <<>>
NoAbi == [n \in {} |-> 0]

\* Registrable implementations: whether the type satisfies StatelessImpl,
\* whether it satisfies StatefulImpl, its method set and its ABIMethods().
Registrables ==
    [stateless : BOOLEAN, stateful : {TRUE}, methods : MethodSets, abi : AbiMaps]
    \cup
    [stateless : BOOLEAN, stateful : {FALSE}, methods : {NoMethods}, abi : {NoAbi}]

\* the execution plugin handed to Build, and the field before SetPlugin
ThePlugin == "plugin"
NoPlugin  == "none"

(***************************************************************************)
(* Containers, method records and the dispatch table.                      *)
(***************************************************************************)
NilContainer == [kind |-> "nil"]

NilTable   == [isNil |-> TRUE,  methods |-> <<>>]
Table(t)   == [isNil |-> FALSE, methods |-> t]
EmptyTable == <<>>

\* NewMethod(&abiMethod, abiMethod.Sig, implMethod.Func)
NewMethod(abiMethod, abiSig, execute) ==
    [abiMethod |-> abiMethod, abiSig |-> abiSig, execute |-> execute]

\* NewStateful(rp, idsToMethods): the table wrapped in a stateful container
NewStateful(r, table) ==
    IF table.isNil
    THEN [container |-> NilContainer,
          err |-> [msg |-> "ErrContainerHasNoMethods", found |-> "", wrapped |-> FALSE, ctx |-> NoName]]
    ELSE [container |-> [kind |-> "stateful", impl |-> r, idsToMethods |-> table.methods],
          err |-> NilError]

\* utils.UnsafeBytesToStr(b): the same bytes, read as a string
UnsafeBytesToStr(b) == b

\* a plausible slip: the table keyed by the method name, not the selector
TableKeyByName(abiMethod) == abiMethod.Name

\* the key under which buildIdsToMethods stores and looks up a descriptor
TableKey(abiMethod) == UnsafeBytesToStr(abiMethod.ID)

\* utils.GetAs[StatelessImpl](rp) / utils.GetAs[StatefulImpl](rp)
GetAsStatelessImpl(r) == r.stateless
GetAsStatefulImpl(r)  == r.stateful

\* a plausible slip: the stateful factory's test and name, copied over
StatelessFactoryBuildAsStateful(r, p) ==
    IF ~GetAsStatefulImpl(r)
    THEN [container |-> NilContainer, err |-> Wrap(ErrWrongContainerFactory, statefulContainerName)]
    ELSE [container |-> r, err |-> NilError]

\* StatelessFactory.Build(rp, _)
StatelessFactoryBuild(r, p) ==
    IF ~GetAsStatelessImpl(r)
    THEN [container |-> NilContainer, err |-> Wrap(ErrWrongContainerFactory, statelessContainerName)]
    ELSE [container |-> r, err |-> NilError]

\* one iteration of the first loop of buildIdsToMethods on implMethod:
\* "skip", "error" (err), "panic" or "insert" (key, method)
LoopOutcome(kind, err, key, method) == [kind |-> kind, err |-> err, key |-> key, method |-> method]
NoMethod == NewMethod([Name |-> NoName, Sig |-> "", ID |-> <<>>], "", [Name |-> NoName, Out |-> <<>>])

\* a plausible slip: the method name looked up without formatName
matchImplMethodRawName(pcABI, implMethod) ==
    LET implMethodName == implMethod.Name IN
    IF implMethodName \in DOMAIN pcABI
    THEN LET abiMethod == pcABI[implMethodName]
             v == validateReturnTypes(implMethod)
         IN  IF v.panic THEN LoopOutcome("panic", NilError, <<>>, NoMethod)
             ELSE IF v.err # NilError
                  THEN LoopOutcome("error", Wrap(v.err, implMethodName), <<>>, NoMethod)
                  ELSE LoopOutcome("insert", NilError, TableKey(abiMethod),
                                   NewMethod(abiMethod, abiMethod.Sig, implMethod))
    ELSE LoopOutcome("skip", NilError, <<>>, NoMethod)

\* a plausible slip: every method validated, before its name is looked up
matchImplMethodValidatesFirst(pcABI, implMethod) ==
    LET implMethodName == formatName(implMethod.Name)
        v == validateReturnTypes(implMethod)
    IN  IF v.panic THEN LoopOutcome("panic", NilError, <<>>, NoMethod)
        ELSE IF v.err # NilError
        THEN LoopOutcome("error", Wrap(v.err, implMethodName), <<>>, NoMethod)
        ELSE IF implMethodName \in DOMAIN pcABI
        THEN LoopOutcome("insert", NilError, TableKey(pcABI[implMethodName]),
                         NewMethod(pcABI[implMethodName], pcABI[implMethodName].Sig, implMethod))
        ELSE LoopOutcome("skip", NilError, <<>>, NoMethod)

matchImplMethod(pcABI, implMethod) ==
    LET implMethodName == formatName(implMethod.Name) IN
    IF implMethodName \in DOMAIN pcABI
    THEN LET abiMethod == pcABI[implMethodName]
             v == validateReturnTypes(implMethod)
         IN  IF v.panic THEN LoopOutcome("panic", NilError, <<>>, NoMethod)
             ELSE IF v.err # NilError
                  THEN LoopOutcome("error", Wrap(v.err, implMethodName), <<>>, NoMethod)
                  ELSE LoopOutcome("insert", NilError, TableKey(abiMethod),
                                   NewMethod(abiMethod, abiMethod.Sig, implMethod))
    ELSE LoopOutcome("skip", NilError, <<>>, NoMethod)

\* a plausible slip: the completeness check finds every method
verifyAbiMethodFindsAll(table, abiMethod) == NilError

\* one iteration of the second loop: is abiMethod's selector in the table
verifyAbiMethod(table, abiMethod) ==
    IF TableKey(abiMethod) \notin DOMAIN table
    THEN Wrap(ErrNoPrecompileMethodForABIMethod, abiMethod.Name)
    ELSE NilError

(***************************************************************************)
(* State.                                                                  *)
(***************************************************************************)
VARIABLES
    rp,               \* the Registrable handed to Build
    factory,          \* the factory the registration caller uses
    plugin,           \* the implementation's plugin field
    pc,               \* position of the running Build
    m,                \* index of the first loop of buildIdsToMethods
    idsToMethods,     \* the table under construction
    unchecked,        \* ABI names the second loop has not visited yet
    builderRet,       \* what buildIdsToMethods returned: [table, err]
    ret,              \* what Build returned: [container, err]
    setPluginCalls,   \* SetPlugin calls of the running Build
    newStatefulCalls, \* NewStateful calls of the running Build
    attempt,          \* number of the running Build call
    history,          \* what the earlier Build calls returned
    name,             \* formatName: the argument
    once,             \* formatName(name)
    twice             \* formatName(formatName(name))

vars == <<rp, factory, plugin, pc, m, idsToMethods, unchecked, builderRet, ret,
          setPluginCalls, newStatefulCalls, attempt, history, name, once, twice>>

nameVars == <<name, once, twice>>

NoReturn  == [returned |-> FALSE, container |-> NilContainer, err |-> NilError]
Return(r) == [returned |-> TRUE, container |-> r.container, err |-> r.err]

NoBuilderReturn     == [returned |-> FALSE, table |-> NilTable, err |-> NilError]
BuilderReturn(t, e) == [returned |-> TRUE, table |-> t, err |-> e]

NumMethod(r) == Len(r.methods)
Method(r, i) == r.methods[i + 1]

InitBuildLocals ==
    /\ pc = "idle"
    /\ m = 0
    /\ idsToMethods = EmptyTable
    /\ unchecked = {}
    /\ builderRet = NoBuilderReturn
    /\ ret = NoReturn
    /\ setPluginCalls = 0
    /\ newStatefulCalls = 0

Init ==
    /\ rp \in Registrables
    /\ factory \in {"stateless", "stateful"}
    /\ plugin = NoPlugin
    /\ InitBuildLocals
    /\ attempt = 1
    /\ history = <<>>
    /\ name = NoName /\ once = NoName /\ twice = NoName

(***************************************************************************)
(* StatelessFactory.Build                                                  *)
(***************************************************************************)
StatelessBuild ==
    /\ pc = "idle" /\ factory = "stateless"
    /\ ret' = Return(StatelessFactoryBuild(rp, ThePlugin))
    /\ pc' = "done"
    /\ UNCHANGED <<rp, factory, plugin, m, idsToMethods, unchecked, builderRet,
                   setPluginCalls, newStatefulCalls, attempt, history, nameVars>>

(***************************************************************************)
(* StatefulFactory.Build                                                   *)
(***************************************************************************)
\* sci, ok := utils.GetAs[StatefulImpl](rp); if !ok { return nil, Wrap(...) }
StatefulBuildWrongFactory ==
    /\ pc = "idle" /\ factory = "stateful"
    /\ ~GetAsStatefulImpl(rp)
    /\ ret' = Return([container |-> NilContainer,
                      err |-> Wrap(ErrWrongContainerFactory, statefulContainerName)])
    /\ pc' = "done"
    /\ UNCHANGED <<rp, factory, plugin, m, idsToMethods, unchecked, builderRet,
                   setPluginCalls, newStatefulCalls, attempt, history, nameVars>>

StatefulBuildEnter ==
    /\ pc = "idle" /\ factory = "stateful"
    /\ GetAsStatefulImpl(rp)
    /\ pc' = "setPlugin"
    /\ UNCHANGED <<rp, factory, plugin, m, idsToMethods, unchecked, builderRet, ret,
                   setPluginCalls, newStatefulCalls, attempt, history, nameVars>>

\* a plausible slip: the plugin is not attached before the table is built
SetPluginSkipped ==
    /\ pc = "setPlugin"
    /\ pc' = "build"
    /\ UNCHANGED <<rp, factory, plugin, m, idsToMethods, unchecked, builderRet, ret,
                   setPluginCalls, newStatefulCalls, attempt, history, nameVars>>

\* sci.SetPlugin(p)
SetPlugin ==
    /\ pc = "setPlugin"
    /\ plugin' = ThePlugin
    /\ setPluginCalls' = setPluginCalls + 1
    /\ pc' = "build"
    /\ UNCHANGED <<rp, factory, m, idsToMethods, unchecked, builderRet, ret,
                   newStatefulCalls, attempt, history, nameVars>>

\* buildIdsToMethods(sci.ABIMethods(), reflect.ValueOf(sci)): entry
BuildIdsToMethodsEnter ==
    /\ pc = "build"
    /\ idsToMethods' = EmptyTable
    /\ m' = 0
    /\ pc' = "match"
    /\ UNCHANGED <<rp, factory, plugin, unchecked, builderRet, ret,
                   setPluginCalls, newStatefulCalls, attempt, history, nameVars>>

\* for m := 0; m < NumMethod(); m++ { ... }: one iteration
MatchStep ==
    /\ pc = "match" /\ m < NumMethod(rp)
    /\ LET o == matchImplMethod(rp.abi, Method(rp, m)) IN
       \/ /\ o.kind = "skip"
          /\ m' = m + 1
          /\ UNCHANGED <<pc, idsToMethods, builderRet>>
       \/ /\ o.kind = "insert"
          /\ idsToMethods' = (o.key :> o.method) @@ idsToMethods
          /\ m' = m + 1
          /\ UNCHANGED <<pc, builderRet>>
       \/ /\ o.kind = "error"
          /\ builderRet' = BuilderReturn(NilTable, o.err)
          /\ pc' = "built"
          /\ UNCHANGED <<m, idsToMethods>>
       \/ /\ o.kind = "panic"
          /\ pc' = "panic"
          /\ UNCHANGED <<m, idsToMethods, builderRet>>
    /\ UNCHANGED <<rp, factory, plugin, unchecked, ret,
                   setPluginCalls, newStatefulCalls, attempt, history, nameVars>>

\* the first loop ends; the range over pcABI begins
MatchDone ==
    /\ pc = "match" /\ m = NumMethod(rp)
    /\ unchecked' = DOMAIN rp.abi
    /\ pc' = "verify"
    /\ UNCHANGED <<rp, factory, plugin, m, idsToMethods, builderRet, ret,
                   setPluginCalls, newStatefulCalls, attempt, history, nameVars>>

\* for _, abiMethod := range pcABI { ... }: one iteration; Go ranges over a
\* map in an unspecified order, so any unvisited entry can come next
VerifyStep ==
    /\ pc = "verify"
    /\ \E n \in unchecked :
          LET e == verifyAbiMethod(idsToMethods, rp.abi[n]) IN
          \/ /\ e # NilError
             /\ builderRet' = BuilderReturn(NilTable, e)
             /\ pc' = "built"
             /\ UNCHANGED unchecked
          \/ /\ e = NilError
             /\ unchecked' = unchecked \ {n}
             /\ UNCHANGED <<pc, builderRet>>
    /\ UNCHANGED <<rp, factory, plugin, m, idsToMethods, ret,
                   setPluginCalls, newStatefulCalls, attempt, history, nameVars>>

\* return idsToMethods, nil
VerifyDone ==
    /\ pc = "verify" /\ unchecked = {}
    /\ builderRet' = BuilderReturn(Table(idsToMethods), NilError)
    /\ pc' = "built"
    /\ UNCHANGED <<rp, factory, plugin, m, idsToMethods, unchecked, ret,
                   setPluginCalls, newStatefulCalls, attempt, history, nameVars>>

\* a plausible slip: the builder's error wrapped once more by Build
BuildReturnErrorWrapped ==
    /\ pc = "built" /\ builderRet.err # NilError
    /\ ret' = Return([container |-> NilContainer,
                      err |-> Wrap(builderRet.err, statefulContainerName)])
    /\ pc' = "done"
    /\ UNCHANGED <<rp, factory, plugin, m, idsToMethods, unchecked, builderRet,
                   setPluginCalls, newStatefulCalls, attempt, history, nameVars>>

\* a plausible slip: the plugin detached again when the builder fails
BuildReturnErrorRollsBack ==
    /\ pc = "built" /\ builderRet.err # NilError
    /\ ret' = Return([container |-> NilContainer, err |-> builderRet.err])
    /\ plugin' = NoPlugin
    /\ pc' = "done"
    /\ UNCHANGED <<rp, factory, m, idsToMethods, unchecked, builderRet,
                   setPluginCalls, newStatefulCalls, attempt, history, nameVars>>

\* if err != nil { return nil, err }
BuildReturnError ==
    /\ pc = "built" /\ builderRet.err # NilError
    /\ ret' = Return([container |-> NilContainer, err |-> builderRet.err])
    /\ pc' = "done"
    /\ UNCHANGED <<rp, factory, plugin, m, idsToMethods, unchecked, builderRet,
                   setPluginCalls, newStatefulCalls, attempt, history, nameVars>>

\* return NewStateful(rp, idsToMethods)
BuildReturnContainer ==
    /\ pc = "built" /\ builderRet.err = NilError
    /\ ret' = Return(NewStateful(rp, builderRet.table))
    /\ newStatefulCalls' = newStatefulCalls + 1
    /\ pc' = "done"
    /\ UNCHANGED <<rp, factory, plugin, m, idsToMethods, unchecked, builderRet,
                   setPluginCalls, attempt, history, nameVars>>

\* the registration caller calls Build again with the same arguments
BuildAgain ==
    /\ pc = "done" /\ attempt < MaxAttempts
    /\ history' = Append(history, ret)
    /\ attempt' = attempt + 1
    /\ pc' = "idle"
    /\ m' = 0
    /\ idsToMethods' = EmptyTable
    /\ unchecked' = {}
    /\ builderRet' = NoBuilderReturn
    /\ ret' = NoReturn
    /\ setPluginCalls' = 0
    /\ newStatefulCalls' = 0
    /\ UNCHANGED <<rp, factory, plugin, nameVars>>

Next ==
    \/ StatelessBuild
    \/ StatefulBuildWrongFactory
    \/ StatefulBuildEnter
    \/ SetPlugin
    \/ BuildIdsToMethodsEnter
    \/ MatchStep
    \/ MatchDone
    \/ VerifyStep
    \/ VerifyDone
    \/ BuildReturnError
    \/ BuildReturnContainer
    \/ BuildAgain

Spec == Init /\ [][Next]_vars

(***************************************************************************)
(* formatName on its own: names of up to MaxNameLen characters over a      *)
(* small alphabet, and the staking method name GetActiveValidators.        *)
(***************************************************************************)
\* 'G', 'V', 'g', 'v', '_' and U+212A
Alphabet == {71, 86, 103, 118, 95, KelvinSign}

\* "GetActiveValidators"
Name_GetActiveValidators ==
    <<71, 101, 116, 65, 99, 116, 105, 118, 101, 86, 97, 108, 105, 100, 97, 116, 111, 114, 115>>

Names ==
    UNION {[1..n -> Alphabet] : n \in 0..MaxNameLen} \cup {Name_GetActiveValidators}

InitFormatName ==
    /\ rp = [stateless |-> FALSE, stateful |-> FALSE, methods |-> NoMethods, abi |-> NoAbi]
    /\ factory = "none"
    /\ plugin = NoPlugin
    /\ InitBuildLocals
    /\ attempt = 1
    /\ history = <<>>
    /\ name \in Names /\ once = NoName /\ twice = NoName

\* implMethodName := formatName(name)
FormatNameCall ==
    /\ pc = "idle" /\ factory = "none"
    /\ once' = formatName(name)
    /\ pc' = "formatted"
    /\ UNCHANGED <<rp, factory, plugin, m, idsToMethods, unchecked, builderRet, ret,
                   setPluginCalls, newStatefulCalls, attempt, history, name, twice>>

\* formatName applied to its own result
FormatNameAgain ==
    /\ pc = "formatted"
    /\ twice' = formatName(once)
    /\ pc' = "reformatted"
    /\ UNCHANGED <<rp, factory, plugin, m, idsToMethods, unchecked, builderRet, ret,
                   setPluginCalls, newStatefulCalls, attempt, history, name, once>>

NextFormatName == FormatNameCall \/ FormatNameAgain

SpecFormatName == InitFormatName /\ [][NextFormatName]_vars

(***************************************************************************)
(* Vocabulary of the properties.                                           *)
(***************************************************************************)
\* an upper-case letter of the modelled code points
IsUpper(c) == c \in 65..90 \/ c = KelvinSign

\* the normalized name: the first character lower-cased, the rest kept
Normalized(n) == IF n = <<>> THEN <<>> ELSE <<ToLower(n[1])>> \o Tail(n)

\* "getActiveValidators"
Name_getActiveValidators ==
    <<103, 101, 116, 65, 99, 116, 105, 118, 101, 86, 97, 108, 105, 100, 97, 116, 111, 114, 115>>

\* the signature validateReturnTypes is documented to ask for: exactly ([]any, error)
IsAnySliceAndError(out) ==
    /\ Len(out) = 2
    /\ out[1].Kind = "slice" /\ out[1].Elem = "interface"
    /\ out[2] = ErrorT

StatefulRun == factory = "stateful"
StatelessRun == factory = "stateless"

AbiDescriptors == {rp.abi[n] : n \in DOMAIN rp.abi}
AbiSelectors   == {d.ID : d \in AbiDescriptors}
ImplMethods    == {rp.methods[i] : i \in 1..Len(rp.methods)}

\* implementation methods whose normalized name is an ABI method name
MatchedMethods == {im \in ImplMethods : Normalized(im.Name) \in DOMAIN rp.abi}
HelperMethods  == ImplMethods \ MatchedMethods
\* ABI methods no implementation method is named after
Unimplemented ==
    {d \in AbiDescriptors : \A im \in ImplMethods : Normalized(im.Name) # d.Name}
\* matched methods that do not return exactly ([]any, error)
InvalidMatched == {im \in MatchedMethods : ~IsAnySliceAndError(im.Out)}

\* buildIdsToMethods has ended: it returned, or it panicked
BuilderFinished == StatefulRun /\ (builderRet.returned \/ pc = "panic")
BuilderSucceeded == StatefulRun /\ builderRet.returned /\ builderRet.err = NilError
BuilderFailed == StatefulRun /\ builderRet.returned /\ builderRet.err # NilError
StatefulBuildSucceeded == StatefulRun /\ ret.returned /\ ret.err = NilError

IsNoImplError(e) == e.msg = ErrNoPrecompileMethodForABIMethod.msg

(***************************************************************************)
(* C1: whenever buildIdsToMethods (and so StatefulFactory.Build) returns   *)
(* successfully, the returned table has an entry keyed by m.ID for every   *)
(* ABI method descriptor m of the ABI passed in.                           *)
(***************************************************************************)
C1_SuccessfulTableIsComplete ==
    /\ BuilderSucceeded =>
          \A d \in AbiDescriptors : d.ID \in DOMAIN builderRet.table.methods
    /\ StatefulBuildSucceeded =>
          \A d \in AbiDescriptors : d.ID \in DOMAIN ret.container.idsToMethods

C1_Witness ==
    /\ StatefulBuildSucceeded
    /\ Cardinality(AbiDescriptors) = 2

(***************************************************************************)
(* C2, as stated: building the table fails with the "no implementation for *)
(* ABI method" error, wrapped with the name of an unimplemented ABI        *)
(* method, if and only if at least one ABI method has no implementation    *)
(* method whose normalized name equals its name.                           *)
(***************************************************************************)
C2_NoImplErrorIffUnimplemented ==
    BuilderFinished =>
        /\ IsNoImplError(builderRet.err) <=> (Unimplemented # {})
        /\ IsNoImplError(builderRet.err) =>
              \E d \in Unimplemented :
                  builderRet.err = Wrap(ErrNoPrecompileMethodForABIMethod, d.Name)

(***************************************************************************)
(* C2, amended: the return types of the matched methods are validated      *)
(* first, so building fails with the "no implementation" error (naming an  *)
(* unimplemented ABI method) if and only if validateReturnTypes accepts    *)
(* every matched implementation method and at least one ABI method has no  *)
(* implementation method whose normalized name equals its name.            *)
(***************************************************************************)
C2_NoImplErrorIffUnimplementedAfterValidation ==
    BuilderFinished =>
        /\ IsNoImplError(builderRet.err) <=>
              /\ Unimplemented # {}
              /\ \A im \in MatchedMethods : validateReturnTypes(im) = Validated(NilError)
        /\ IsNoImplError(builderRet.err) =>
              \E d \in Unimplemented :
                  builderRet.err = Wrap(ErrNoPrecompileMethodForABIMethod, d.Name)

C2_Witness ==
    /\ BuilderFinished
    /\ IsNoImplError(builderRet.err)
    /\ MatchedMethods # {}

(***************************************************************************)
(* C3, as stated: if a matched implementation method returns anything but  *)
(* exactly ([]any, error), StatefulFactory.Build fails: it returns no      *)
(* container and a non-nil error wrapped with the normalized name of such  *)
(* a method.                                                               *)
(***************************************************************************)
C3_InvalidReturnTypesFailBuild ==
    (StatefulRun /\ pc \in {"done", "panic"} /\ InvalidMatched # {}) =>
        /\ ret.returned
        /\ ret.container = NilContainer
        /\ ret.err # NilError
        /\ ret.err.wrapped
        /\ \E im \in InvalidMatched : ret.err.ctx = Normalized(im.Name)

(***************************************************************************)
(* C4: every entry (k, r) of a table buildIdsToMethods builds is well      *)
(* formed: k is the ID of r's own ABI descriptor, r's signature is that    *)
(* descriptor's Sig, and r's callable is an implementation method whose    *)
(* normalized name is the descriptor's name; in a returned table the entry *)
(* under m.ID is the record of m.                                          *)
(***************************************************************************)
WellFormedTable(t) ==
    \A k \in DOMAIN t :
        /\ t[k].abiMethod \in AbiDescriptors
        /\ k = t[k].abiMethod.ID
        /\ t[k].abiSig = t[k].abiMethod.Sig
        /\ t[k].execute \in ImplMethods
        /\ Normalized(t[k].execute.Name) = t[k].abiMethod.Name

ReachesOwnMethod(t) ==
    \A d \in AbiDescriptors : d.ID \in DOMAIN t => t[d.ID].abiMethod = d

C4_EntriesAreWellFormed ==
    StatefulRun =>
        /\ WellFormedTable(idsToMethods)
        /\ BuilderSucceeded =>
              /\ WellFormedTable(builderRet.table.methods)
              /\ ReachesOwnMethod(builderRet.table.methods)
        /\ StatefulBuildSucceeded =>
              /\ WellFormedTable(ret.container.idsToMethods)
              /\ ReachesOwnMethod(ret.container.idsToMethods)

C4_Witness ==
    /\ BuilderSucceeded
    /\ Cardinality(DOMAIN builderRet.table.methods) = 2

(***************************************************************************)
(* C5: StatelessFactory.Build succeeds iff the implementation satisfies    *)
(* StatelessImpl; on success the container is the implementation itself,   *)
(* no table is built and the plugin is not attached; otherwise it returns  *)
(* no container and ErrWrongContainerFactory wrapped with                  *)
(* "StatelessContainerImpl".                                               *)
(***************************************************************************)
C5_StatelessBuild ==
    (StatelessRun /\ pc = "done") =>
        /\ ret.returned
        /\ (ret.err = NilError) <=> rp.stateless
        /\ rp.stateless =>
              /\ ret.container = rp
              /\ idsToMethods = EmptyTable /\ ~builderRet.returned
              /\ plugin = NoPlugin /\ setPluginCalls = 0 /\ newStatefulCalls = 0
        /\ ~rp.stateless =>
              /\ ret.container = NilContainer
              /\ ret.err.msg = ErrWrongContainerFactory.msg
              /\ ret.err.wrapped
              /\ ret.err.ctx = statelessContainerName
              /\ ret.err.ctx # statefulContainerName

C5_Witness ==
    /\ StatelessRun /\ pc = "done"
    /\ rp.stateless /\ rp.stateful
    /\ ret.container = rp

(***************************************************************************)
(* C6: implementation methods whose normalized name is no ABI method name  *)
(* are skipped: whatever they return, a build whose matched methods all    *)
(* return ([]any, error) and whose ABI methods are all implemented         *)
(* succeeds, a validation error never names them, they never get a table   *)
(* entry, and the keys of a successfully built table are exactly the       *)
(* selectors of the ABI's methods, one entry each.                         *)
(***************************************************************************)
NoHelperEntry(t) ==
    \A k \in DOMAIN t : Normalized(t[k].execute.Name) \in DOMAIN rp.abi

C6_HelperMethodsAreSkipped ==
    StatefulRun =>
        /\ (BuilderFinished /\ InvalidMatched = {} /\ Unimplemented = {}) =>
              builderRet.returned /\ builderRet.err = NilError
        /\ (BuilderFailed /\ ~IsNoImplError(builderRet.err)) =>
              builderRet.err.ctx \in DOMAIN rp.abi
        /\ NoHelperEntry(idsToMethods)
        /\ BuilderSucceeded =>
              /\ NoHelperEntry(builderRet.table.methods)
              /\ DOMAIN builderRet.table.methods = AbiSelectors
              /\ Cardinality(DOMAIN builderRet.table.methods) = Cardinality(AbiDescriptors)

C6_Witness ==
    /\ BuilderSucceeded
    /\ AbiDescriptors # {}
    /\ \E im \in HelperMethods : ~IsAnySliceAndError(im.Out)

(***************************************************************************)
(* C7, as stated: Build is deterministic: a later Build call with the same *)
(* implementation and the same ABI returns what the earlier calls          *)
(* returned, the same error (kind and named method) included.              *)
(***************************************************************************)
C7_BuildIsDeterministic ==
    (pc = "done" /\ history # <<>>) =>
        \A i \in 1..Len(history) : history[i] = ret

(***************************************************************************)
(* C8: formatName lower-cases only the first character and keeps every     *)
(* later one ("GetActiveValidators" becomes "getActiveValidators"); a name *)
(* that does not start with an upper-case letter and the empty name are    *)
(* returned unchanged; formatName is idempotent and keeps the length.      *)
(***************************************************************************)
C8_FormatName ==
    pc \in {"formatted", "reformatted"} =>
        /\ Len(once) = Len(name)
        /\ \A i \in 2..Len(name) : once[i] = name[i]
        /\ name # <<>> => once[1] = ToLower(name[1])
        /\ (name # <<>> /\ ~IsUpper(name[1])) => once = name
        /\ name = <<>> => once = <<>>
        /\ name = Name_GetActiveValidators => once = Name_getActiveValidators
        /\ pc = "reformatted" => twice = once

C8_Witness ==
    /\ pc = "reformatted"
    /\ name = Name_GetActiveValidators
    /\ once = Name_getActiveValidators

(***************************************************************************)
(* C9: when buildIdsToMethods returns an error, StatefulFactory.Build      *)
(* returns exactly that error and a nil container; the builder hands out   *)
(* no table, and NewStateful is not called.                                *)
(***************************************************************************)
C9_BuilderErrorIsReturnedUnchanged ==
    BuilderFailed =>
        /\ builderRet.table = NilTable
        /\ newStatefulCalls = 0
        /\ pc = "done" =>
              /\ ret.returned
              /\ ret.err = builderRet.err
              /\ ret.container = NilContainer

C9_Witness ==
    /\ BuilderFailed /\ pc = "done"
    /\ ~IsNoImplError(builderRet.err)

(***************************************************************************)
(* C10: in a StatefulFactory.Build that reaches table construction, the    *)
(* plugin is attached (SetPlugin(p)) before buildIdsToMethods starts and   *)
(* before the container is created, exactly once per Build call; no        *)
(* stateful container exists for an implementation without its plugin.     *)
(***************************************************************************)
C10_PluginAttachedBeforeTable ==
    StatefulRun =>
        /\ pc \in {"idle", "setPlugin"} => setPluginCalls = 0
        /\ pc \in {"build", "match", "verify", "built", "panic"} =>
              setPluginCalls = 1 /\ plugin = ThePlugin
        /\ (pc = "done" /\ rp.stateful) => setPluginCalls = 1 /\ plugin = ThePlugin
        /\ (idsToMethods # EmptyTable \/ builderRet.returned \/ newStatefulCalls > 0) =>
              setPluginCalls = 1 /\ plugin = ThePlugin
        /\ (ret.returned /\ ret.container # NilContainer) =>
              setPluginCalls = 1 /\ plugin = ThePlugin

C10_Witness ==
    /\ StatefulBuildSucceeded
    /\ attempt = 2
    /\ setPluginCalls = 1

(***************************************************************************)
(* C11: StatefulFactory.Build calls SetPlugin if and only if the           *)
(* implementation satisfies StatefulImpl, whether or not the table is then *)
(* built: a wrong-factory failure (ErrWrongContainerFactory wrapped with   *)
(* "StatefulContainerImpl") leaves the implementation untouched and builds *)
(* no table; a table-builder failure returns the error with the plugin     *)
(* attached and not detached again.                                        *)
(***************************************************************************)
C11_SetPluginIffStatefulImpl ==
    (StatefulRun /\ pc \in {"done", "panic"}) =>
        /\ (setPluginCalls > 0) <=> rp.stateful
        /\ rp.stateful => plugin = ThePlugin
        /\ ~rp.stateful =>
              /\ plugin = NoPlugin
              /\ ret.returned /\ ret.container = NilContainer
              /\ ret.err = Wrap(ErrWrongContainerFactory, statefulContainerName)
              /\ ret.err.ctx # statelessContainerName
              /\ idsToMethods = EmptyTable /\ ~builderRet.returned
              /\ newStatefulCalls = 0
        /\ BuilderFailed =>
              /\ ret.returned /\ ret.err = builderRet.err
              /\ setPluginCalls = 1 /\ plugin = ThePlugin

C11_Witness ==
    /\ StatefulRun /\ pc = "done"
    /\ BuilderFailed
    /\ attempt = 1
    /\ plugin = ThePlugin
====
